---- MODULE Spec2Model ----
(***************************************************************************)
(* Analysis-job lifecycle and history store of the Medical Guide          *)
(* Assistant (src/App.tsx, storageService in src/services/geminiService.ts)*)
(*                                                                         *)
(* The program is single-threaded and event-driven.  Every `await` of the  *)
(* source is a suspension point; the model has one action per handler and  *)
(* one action per resumption.  Storage calls (idb-keyval get/set/del) are  *)
(* IndexedDB transactions: they are kept in creation order in idbq, and a  *)
(* transaction completes only when IndexedDB's scheduling rule allows it   *)
(* (a read-only transaction waits for every earlier read/write one, a      *)
(* read/write transaction waits for every earlier transaction).            *)
(***************************************************************************)
EXTENDS Integers, Sequences, FiniteSets, TLC

(* ---------------------------- bounds ---------------------------------- *)
MaxJobs == 2        \* submissions (handleAnalysis calls) per behaviour
MaxClock == 2       \* Date.now() takes the values 1..MaxClock
MaxQueue == 2       \* storage calls in flight when the user starts another

(* ------------------------ program constants --------------------------- *)
MaxItems == 50      \* saveItem: if (updated.length > 50) slice(0, 50)

NoResult == "undefined"      \* result?: AnalysisResult left out
NoError == "null"            \* error state null
NoId == 0                    \* activeHistoryId null
NoSummary == "undefined"     \* summary?: string left out
DEFAULT_PROFILE == "default_me"

OneImage == 1                \* base64List of one staged image
Results == {"R1"}            \* values analyzeMedicalImage resolves with
NoMessage == ""              \* err.message empty or absent (falsy)
Errors == {"E1", NoMessage}  \* err.message of a rejection
Languages == {"zh", "en"}

VARIABLES
    now,              \* Date.now()
    store,            \* IndexedDB value under STORE_KEY (<<>> when absent)
    legacy,           \* localStorage 'medical_guide_history', parsed
    localStorage,     \* localStorage: PROFILE_KEY and ACTIVE_PROFILE_KEY
    profiles,         \* React state: profiles
    editingProfileId, \* ProfileSelector state: editingProfileId
    history,          \* React state: history
    loading,          \* React state: loading
    result,           \* React state: result
    error,            \* React state: error
    activeHistoryId,  \* React state: activeHistoryId
    images,           \* React state: images (id of the job they belong to)
    language,         \* React state: language
    activeProfileId,  \* React state: activeProfileId
    reportDate,       \* React state: reportDate
    jobs,             \* the handleAnalysis invocations and where each stands
    idbq,             \* IndexedDB transactions in flight, in creation order
    removed,          \* ids removed by deleteItem / clear (observation)
    deletedProfiles,  \* ids passed to deleteProfile (observation)
    trend             \* the last series getIndicatorTrend returned, with its
                      \* arguments (observation)

persisted == <<store, legacy, localStorage>>
ui == <<loading, result, error, activeHistoryId, images>>
prefs == <<language, activeProfileId, reportDate, profiles, editingProfileId>>
vars == <<now, store, legacy, localStorage, profiles, editingProfileId,
          history, loading, result, error, activeHistoryId, images, language,
          activeProfileId, reportDate, jobs, idbq, removed, deletedProfiles,
          trend>>
observed == <<removed, deletedProfiles, trend>>

(* --------------------------- HistoryItem ------------------------------ *)
\* types.ts HistoryItem; a field the object does not have is "undefined"
HistoryItem(id, pid, date, st, res, sum) ==
    [id |-> id, profileId |-> pid, reportDate |-> date, status |-> st,
     result |-> res, summary |-> sum, chatHistory |-> <<>>,
     timestamp |-> id]   \* Date.now() again, taken as the value of the id

\* the record shape of the first version of the app: {id, timestamp, result}
LegacyItem(id, res) ==
    [id |-> id, profileId |-> "undefined", reportDate |-> 0,
     status |-> "undefined", result |-> res, summary |-> NoSummary,
     chatHistory |-> <<>>, timestamp |-> id]

\* translations[language].errorGeneric
errorGeneric(lang) ==
    IF lang = "zh" THEN "errorGeneric_zh" ELSE "errorGeneric_en"

\* err.message without the fallback
errorMessageRaw(err, lang) == err

\* err.message || t.errorGeneric
errorMessageOf(err, lang) ==
    IF err = NoMessage THEN errorGeneric(lang) ELSE err

\* translations[language].taskInterrupted
taskInterrupted(lang) == <<"taskInterrupted", lang>>

\* before getIndicatorTrend was called
NoTrend ==
    [indicatorName |-> <<>>, currentVal |-> 0, currentDate |-> 0,
     series |-> <<>>]

(* ------------------------- storageService ----------------------------- *)
\* Array.prototype.findIndex on ids, 1-based; 0 stands for -1
findIndex(list, id) ==
    IF \E i \in 1..Len(list) : list[i].id = id
    THEN CHOOSE i \in 1..Len(list) :
            /\ list[i].id = id
            /\ \A k \in 1..(i - 1) : list[k].id # id
    ELSE 0

\* saveItem as it would be if it moved a record it updates to the head
saveItemToFront(current, item) ==
    LET others == SelectSeq(current, LAMBDA i : i.id # item.id)
        updated == <<item>> \o others
    IN  IF Len(updated) > MaxItems THEN SubSeq(updated, 1, MaxItems)
        ELSE updated

\* the synchronous part of storageService.saveItem between getAll and set
saveItem(current, item) ==
    LET index == findIndex(current, item.id)
        updated == IF index > 0
                   THEN [current EXCEPT ![index] = item]
                   ELSE <<item>> \o current
    IN  IF Len(updated) > MaxItems THEN SubSeq(updated, 1, MaxItems)
        ELSE updated

\* current.filter(i => i.id !== id)
RECURSIVE filterOut(_, _)
filterOut(list, id) ==
    IF list = <<>> THEN <<>>
    ELSE IF Head(list).id = id THEN filterOut(Tail(list), id)
         ELSE <<Head(list)>> \o filterOut(Tail(list), id)

deleteItem(current, id) == filterOut(current, id)

(* ------------------------------ init ---------------------------------- *)
\* cleanItem as it would be if every record without a result were reclassified
cleanItemNoResult(item, lang) ==
    IF item.status # "completed"
    THEN [item EXCEPT !.status = "failed", !.result = NoResult,
                      !.summary = taskInterrupted(lang)]
    ELSE item

\* the map callback of init
cleanItem(item, lang) ==
    IF item.status = "processing"
    THEN [item EXCEPT !.status = "failed", !.result = NoResult,
                      !.summary = taskInterrupted(lang)]
    ELSE item

cleanedHistory(stored, lang) ==
    [i \in 1..Len(stored) |-> cleanItem(stored[i], lang)]

(* --------------------- IndexedDB transactions ------------------------- *)
Txn(kind, job, item, list, lang, aid) ==
    [kind |-> kind, job |-> job, item |-> item, list |-> list,
     lang |-> lang, aid |-> aid]

NoItem == HistoryItem(NoId, "undefined", 0, "undefined", NoResult, NoSummary)

\* idb-keyval: get opens a readonly transaction, set and del a readwrite one
ReadOnly(txn) ==
    txn.kind \in {"saveGet", "delGet", "migGet", "initGet", "chatGet"}

\* IndexedDB transaction scheduling on one object store
CanComplete(i) ==
    IF ReadOnly(idbq[i])
    THEN \A k \in 1..(i - 1) : ReadOnly(idbq[k])
    ELSE i = 1

RemoveAt(q, i) == SubSeq(q, 1, i - 1) \o SubSeq(q, i + 1, Len(q))

\* the first transaction of init(): migrateFromLocalStorage reads the store
\* only when the legacy key holds a non-empty array
initTxn(lang) ==
    IF Len(legacy) > 0
    THEN Txn("migGet", 0, NoItem, <<>>, lang, NoId)
    ELSE Txn("initGet", 0, NoItem, <<>>, lang, NoId)

(* ------------------------------ jobs ---------------------------------- *)
IdleJob == [pc |-> "idle", id |-> NoId, bg |-> FALSE,
            profileId |-> "undefined", reportDate |-> 0, outcome |-> "none",
            lang |-> "zh", err |-> NoError, images |-> 0]

processingItem(j) ==
    HistoryItem(jobs[j].id, jobs[j].profileId, jobs[j].reportDate,
                "processing", NoResult, NoSummary)

\* the home view: {!result && !loading && !error && ...}
HomeView == result = NoResult /\ ~loading /\ error = NoError

\* the result view is rendered: {result && (...)}
ResultView == result # NoResult

\* filteredHistory
filteredHistoryIdx ==
    {i \in 1..Len(history) :
        history[i].profileId = "undefined"
        \/ history[i].profileId = activeProfileId}

(* --------------------------- profileService --------------------------- *)
\* DEFAULT_PROFILE, the object; DEFAULT_PROFILE above is its id
DefaultProfile == [id |-> DEFAULT_PROFILE, name |-> "Me"]

NoKey == "null"              \* localStorage.getItem of a key never set
NoProfile == "null"          \* editingProfileId null
Absent == <<>>               \* the value of PROFILE_KEY when it was never set
Stored(list) == <<list>>     \* the value of PROFILE_KEY holding list

\* Number.prototype.toString for the values the clock takes
Digits == <<"1", "2", "3", "4", "5", "6", "7", "8", "9">>
toString(n) == Digits[n]

\* getProfiles(): the list it returns
getProfiles(stored) ==
    IF stored = Absent THEN <<DefaultProfile>> ELSE stored[1]

\* getProfiles(): the value of PROFILE_KEY it leaves
getProfilesSaved(stored) ==
    IF stored = Absent THEN Stored(<<DefaultProfile>>) ELSE stored

\* addProfile(name, relation, context): the list it saves
addProfile(stored, id, name) ==
    Append(getProfiles(stored), [id |-> id, name |-> name])

\* profiles.findIndex(p => p.id === id), 1-based; 0 stands for -1
findProfile(list, id) ==
    IF \E i \in 1..Len(list) : list[i].id = id
    THEN CHOOSE i \in 1..Len(list) :
            /\ list[i].id = id
            /\ \A k \in 1..(i - 1) : list[k].id # id
    ELSE 0

\* updateProfile(id, updates): the list it returns, saved when id was found
updateProfile(stored, id, name) ==
    LET list == getProfiles(stored)
        index == findProfile(list, id)
    IN  IF index > 0 THEN [list EXCEPT ![index].name = name] ELSE list

\* profiles.filter(p => p.id !== id)
RECURSIVE filterProfiles(_, _)
filterProfiles(list, id) ==
    IF list = <<>> THEN <<>>
    ELSE IF Head(list).id = id THEN filterProfiles(Tail(list), id)
         ELSE <<Head(list)>> \o filterProfiles(Tail(list), id)

\* deleteProfile as it would be without the fallback to the default profile
deleteProfileNoDefault(stored, id) ==
    filterProfiles(getProfiles(stored), id)

\* deleteProfile(id): the list it saves and returns
deleteProfile(stored, id) ==
    LET filtered == filterProfiles(getProfiles(stored), id)
    IN  IF Len(filtered) = 0 THEN <<DefaultProfile>> ELSE filtered

\* getActiveProfileId()
getActiveProfileId(key) == IF key = NoKey THEN DEFAULT_PROFILE ELSE key

\* the synchronous first part of init(): profiles and the active profile
initProfiles ==
    /\ localStorage' = [localStorage EXCEPT
                          !.profiles = getProfilesSaved(localStorage.profiles)]
    /\ profiles' = getProfiles(localStorage.profiles)
    /\ activeProfileId' = getActiveProfileId(localStorage.active)

(* ------------------------------ Init ---------------------------------- *)
InitMemory ==
    /\ history = <<>>
    /\ loading = FALSE
    /\ result = NoResult
    /\ error = NoError
    /\ activeHistoryId = NoId
    /\ images = NoId
    /\ language = "zh"
    /\ reportDate = 1

Init ==
    /\ now = 1
    /\ store = <<>>
    /\ legacy = <<>>
    /\ localStorage = [profiles |-> Stored(<<DefaultProfile>>), active |-> NoKey]
    /\ profiles = <<DefaultProfile>>
    /\ editingProfileId = NoProfile
    /\ activeProfileId = DEFAULT_PROFILE
    /\ InitMemory
    /\ jobs = [j \in 1..MaxJobs |-> IdleJob]
    /\ idbq = <<initTxn("zh")>>
    /\ removed = {}
    /\ deletedProfiles = {}
    /\ trend = NoTrend

(* ----------------------------- actions -------------------------------- *)
\* the clock advances
Tick ==
    /\ now < MaxClock
    /\ now' = now + 1
    /\ UNCHANGED <<persisted, history, ui, prefs, jobs, idbq, observed>>

\* handleAnalysis up to its first await (createThumbnail); base64List is
\* the number of images of the list it is called with
handleAnalysis(j, base64List, runInBackground) ==
    /\ HomeView
    /\ jobs[j].pc = "idle"
    /\ \A k \in 1..(j - 1) : jobs[k].pc # "idle"
    /\ jobs' = [jobs EXCEPT ![j] =
                  [pc |-> "thumb", id |-> now, bg |-> runInBackground,
                   profileId |-> activeProfileId, reportDate |-> reportDate,
                   outcome |-> "none", lang |-> language, err |-> NoError,
                   images |-> base64List]]
    /\ UNCHANGED <<now, persisted, history, ui, prefs, idbq, observed>>

\* createThumbnail as it would be if it accepted an undefined argument
createThumbnailTolerant(base64List) == TRUE

\* createThumbnail(base64List[0]) settles by resolving (onload or onerror);
\* with an empty list the argument is undefined and base64.startsWith throws
\* inside the executor, so the promise rejects
createThumbnailResolves(base64List) == base64List > 0

\* createThumbnail resolved: the rest of handleAnalysis, up to the await of
\* the analysis call inside performAnalysis
thumbnailReady(j) ==
    /\ jobs[j].pc = "thumb"
    /\ createThumbnailResolves(jobs[j].images)
    /\ IF jobs[j].bg
       THEN /\ idbq' = Append(idbq, Txn("saveGet", j, processingItem(j),
                                       <<>>, "zh", NoId))
            /\ images' = NoId
            /\ result' = NoResult
            /\ error' = NoError
            /\ activeHistoryId' = NoId
            /\ UNCHANGED loading
       ELSE /\ images' = jobs[j].id
            /\ loading' = TRUE
            /\ error' = NoError
            /\ result' = NoResult
            /\ activeHistoryId' = jobs[j].id
            /\ UNCHANGED idbq
    /\ jobs' = [jobs EXCEPT ![j].pc = "analyzing"]
    /\ UNCHANGED <<now, persisted, history, prefs, observed>>

\* the analysis call resolved with data: completedItem, saveToHistory starts
analysisResolved(j, data) ==
    /\ jobs[j].pc = "analyzing"
    /\ LET completedItem == [processingItem(j) EXCEPT
                               !.status = "completed", !.result = data]
       IN  idbq' = Append(idbq, Txn("saveGet", j, completedItem, <<>>,
                                    "zh", NoId))
    /\ jobs' = [jobs EXCEPT ![j].pc = "saving", ![j].outcome = "completed"]
    /\ UNCHANGED <<now, persisted, history, ui, prefs, observed>>

\* the analysis call rejected with an error whose message is err: the catch
\* block builds failedItem, saveToHistory starts
analysisRejected(j, err) ==
    /\ jobs[j].pc = "analyzing"
    /\ LET errorMessage == errorMessageOf(err, jobs[j].lang)
           failedItem == [processingItem(j) EXCEPT
                            !.status = "failed", !.summary = errorMessage]
       IN  idbq' = Append(idbq, Txn("saveGet", j, failedItem, <<>>,
                                    "zh", NoId))
    /\ jobs' = [jobs EXCEPT ![j].pc = "saving", ![j].outcome = "failed",
                            ![j].err = err]
    /\ UNCHANGED <<now, persisted, history, ui, prefs, observed>>

\* saveItem: `await this.getAll()` resolved; updated is computed, set starts
saveItemRead(i) ==
    /\ i \in 1..Len(idbq)
    /\ idbq[i].kind = "saveGet"
    /\ CanComplete(i)
    /\ idbq' = Append(RemoveAt(idbq, i),
                      [idbq[i] EXCEPT !.kind = "saveSet",
                                      !.list = saveItem(store, idbq[i].item)])
    /\ UNCHANGED <<now, persisted, history, ui, prefs, jobs, observed>>

\* saveToHistory as it would be if setHistory ran whatever saveItem did
saveToHistoryUnguarded(saved, updated) == updated

\* saveToHistory: the history state it leaves; saved is FALSE when saveItem
\* threw and the catch block ran instead of setHistory(updated)
saveToHistory(saved, updated) == IF saved THEN updated ELSE history

\* performAnalysis as it would be if it did not test runInBackground
foregroundAlways(j) == TRUE

\* performAnalysis as it would be if it never updated the display
foregroundNever(j) == FALSE

\* if (!runInBackground) of performAnalysis
foregroundJob(j) == ~jobs[j].bg

\* saveItem: `await set(STORE_KEY, updated)` resolved; saveToHistory sets the
\* history, and performAnalysis continues after `await saveToHistory(...)`
saveItemWritten(i) ==
    /\ i \in 1..Len(idbq)
    /\ idbq[i].kind = "saveSet"
    /\ CanComplete(i)
    /\ LET txn == idbq[i]
           j == txn.job
           terminal == txn.item.status # "processing"
           foreground == terminal /\ foregroundJob(j)
       IN  /\ store' = txn.list
           /\ history' = saveToHistory(TRUE, txn.list)
           /\ idbq' = RemoveAt(idbq, i)
           /\ jobs' = IF terminal THEN [jobs EXCEPT ![j].pc = "done"]
                      ELSE jobs
           /\ IF foreground /\ txn.item.status = "completed"
              THEN /\ result' = txn.item.result
                   /\ loading' = FALSE
                   /\ activeHistoryId' = txn.item.id
                   /\ UNCHANGED <<error, images>>
              ELSE IF foreground
              THEN /\ error' = txn.item.summary
                   /\ loading' = FALSE
                   /\ activeHistoryId' = NoId
                   /\ UNCHANGED <<result, images>>
              ELSE UNCHANGED ui
    /\ UNCHANGED <<now, legacy, localStorage, prefs, observed>>

\* reset()
resetUi ==
    /\ images' = NoId
    /\ result' = NoResult
    /\ error' = NoError
    /\ activeHistoryId' = NoId
    /\ UNCHANGED loading

\* the back button and the retry button
reset ==
    /\ \/ (result # NoResult \/ images # NoId) /\ ~loading
       \/ error # NoError
    /\ resetUi
    /\ UNCHANGED <<now, persisted, history, prefs, jobs, idbq, observed>>

\* loadHistoryItem(item), item clicked in the HistoryList
loadHistoryItem(i) ==
    /\ HomeView
    /\ i \in filteredHistoryIdx
    /\ history[i].status # "processing"
    /\ history[i].result # NoResult
    /\ result' = history[i].result
    /\ activeHistoryId' = history[i].id
    /\ images' = IF history[i].status = "undefined" THEN NoId
                  ELSE history[i].id  \* first-version records hold no images
    /\ error' = NoError
    /\ reportDate' = IF history[i].reportDate # 0 THEN history[i].reportDate
                     ELSE reportDate
    /\ UNCHANGED <<now, persisted, history, loading, language,
                   activeProfileId, profiles, editingProfileId, jobs, idbq,
                   observed>>

\* deleteHistoryItem up to `await this.getAll()` inside deleteItem
deleteHistoryItem(i) ==
    /\ Len(idbq) < MaxQueue
    /\ HomeView
    /\ i \in filteredHistoryIdx
    /\ idbq' = Append(idbq, Txn("delGet", 0,
                                [NoItem EXCEPT !.id = history[i].id], <<>>,
                                language, activeHistoryId))
    /\ UNCHANGED <<now, persisted, history, ui, prefs, jobs, observed>>

\* deleteItem: getAll resolved, the filtered list is written
deleteItemRead(i) ==
    /\ i \in 1..Len(idbq)
    /\ idbq[i].kind = "delGet"
    /\ CanComplete(i)
    /\ idbq' = Append(RemoveAt(idbq, i),
                      [idbq[i] EXCEPT !.kind = "delSet",
                                      !.list = deleteItem(store, idbq[i].item.id)])
    /\ UNCHANGED <<now, persisted, history, ui, prefs, jobs, observed>>

\* deleteItem: set resolved; the rest of deleteHistoryItem
deleteItemWritten(i) ==
    /\ i \in 1..Len(idbq)
    /\ idbq[i].kind = "delSet"
    /\ CanComplete(i)
    /\ store' = idbq[i].list
    /\ history' = idbq[i].list
    /\ IF idbq[i].aid = idbq[i].item.id THEN resetUi ELSE UNCHANGED ui
    /\ removed' = removed \cup {idbq[i].item.id}
    /\ UNCHANGED <<deletedProfiles, trend>>
    /\ idbq' = RemoveAt(idbq, i)
    /\ UNCHANGED <<now, legacy, localStorage, prefs, jobs>>

\* clearHistory, confirmed, up to `await storageService.clear()`
clearHistory ==
    /\ Len(idbq) < MaxQueue
    /\ HomeView
    /\ filteredHistoryIdx # {}
    /\ idbq' = Append(idbq, Txn("clearDel", 0, NoItem, <<>>, language, NoId))
    /\ UNCHANGED <<now, persisted, history, ui, prefs, jobs, observed>>

\* clear: del(STORE_KEY) resolved; the rest of clearHistory
cleared(i) ==
    /\ i \in 1..Len(idbq)
    /\ idbq[i].kind = "clearDel"
    /\ CanComplete(i)
    /\ store' = <<>>
    /\ history' = <<>>
    /\ resetUi
    /\ removed' = removed \cup {store[k].id : k \in 1..Len(store)}
    /\ UNCHANGED <<deletedProfiles, trend>>
    /\ idbq' = RemoveAt(idbq, i)
    /\ UNCHANGED <<now, legacy, localStorage, prefs, jobs>>

\* migrateFromLocalStorage: getAll resolved
migrateRead(i) ==
    /\ i \in 1..Len(idbq)
    /\ idbq[i].kind = "migGet"
    /\ CanComplete(i)
    /\ idbq' = Append(RemoveAt(idbq, i),
                      IF Len(store) = 0
                      THEN [idbq[i] EXCEPT !.kind = "migSet", !.list = legacy]
                      ELSE [idbq[i] EXCEPT !.kind = "initGet"])
    /\ UNCHANGED <<now, persisted, history, ui, prefs, jobs, observed>>

\* migrateFromLocalStorage: set(STORE_KEY, parsed) resolved; init goes on to
\* `await storageService.getAll()`
migrateWritten(i) ==
    /\ i \in 1..Len(idbq)
    /\ idbq[i].kind = "migSet"
    /\ CanComplete(i)
    /\ store' = idbq[i].list
    /\ idbq' = Append(RemoveAt(idbq, i),
                      [idbq[i] EXCEPT !.kind = "initGet", !.list = <<>>])
    /\ UNCHANGED <<now, legacy, localStorage, history, ui, prefs, jobs,
                   observed>>

\* init: getAll resolved; cleanedHistory is put in the history state
initLoaded(i) ==
    /\ i \in 1..Len(idbq)
    /\ idbq[i].kind = "initGet"
    /\ CanComplete(i)
    /\ history' = cleanedHistory(store, idbq[i].lang)
    /\ idbq' = RemoveAt(idbq, i)
    /\ UNCHANGED <<now, persisted, ui, prefs, jobs, observed>>

\* toggleLanguage; t.taskInterrupted changes, so the init effect runs again
toggleLanguage ==
    /\ Len(idbq) < MaxQueue
    /\ language' = IF language = "zh" THEN "en" ELSE "zh"
    /\ idbq' = Append(idbq, initTxn(language'))
    /\ initProfiles
    /\ UNCHANGED <<now, store, legacy, history, ui, reportDate,
                   editingProfileId, jobs, observed>>

\* the page is closed and opened again: promises and transactions in flight
\* are abandoned, the React state starts over, the effect runs init
Reload ==
    /\ history' = <<>>
    /\ loading' = FALSE
    /\ result' = NoResult
    /\ error' = NoError
    /\ activeHistoryId' = NoId
    /\ images' = NoId
    /\ language' = "zh"
    /\ reportDate' = 1
    /\ jobs' = [j \in 1..MaxJobs |->
                  IF jobs[j].pc \in {"idle", "done", "rejected"} THEN jobs[j]
                  ELSE [jobs[j] EXCEPT !.pc = "aborted"]]
    /\ idbq' = <<initTxn("zh")>>
    /\ initProfiles
    /\ editingProfileId' = NoProfile
    /\ UNCHANGED <<now, store, legacy, observed>>

Next ==
    \/ Tick
    \/ \E j \in 1..MaxJobs, bg \in BOOLEAN : handleAnalysis(j, OneImage, bg)
    \/ \E j \in 1..MaxJobs : thumbnailReady(j)
    \/ \E j \in 1..MaxJobs, data \in Results : analysisResolved(j, data)
    \/ \E j \in 1..MaxJobs, err \in Errors : analysisRejected(j, err)
    \/ \E i \in 1..Len(idbq) : saveItemRead(i)
    \/ \E i \in 1..Len(idbq) : saveItemWritten(i)
    \/ reset
    \/ \E i \in 1..Len(history) : loadHistoryItem(i)
    \/ \E i \in 1..Len(idbq) : initLoaded(i)
    \/ toggleLanguage
    \/ Reload

Spec == Init /\ [][Next]_vars

(* ------------------ loading a persisted history ----------------------- *)
MaxStored == 2      \* records a former session left in the store
MaxLegacy == 2      \* records of the first version left in localStorage

StoredStatuses == {"processing", "completed", "failed"}

\* a record as handleAnalysis writes it, by status
storedItem(id, st) ==
    HistoryItem(id, DEFAULT_PROFILE, 1, st,
                IF st = "completed" THEN "R1" ELSE NoResult,
                IF st = "failed" THEN "E1" ELSE NoSummary)

\* the lists a former session can have left: ids -1, -2, ... newest first
StoredLists ==
    UNION {[1..n -> StoredStatuses] : n \in 0..MaxStored}

storedList(sts) == [k \in 1..Len(sts) |-> storedItem(0 - k, sts[k])]

legacyList(n) == [k \in 1..n |-> LegacyItem(0 - (100 + k), "R1")]

InitLoad ==
    /\ now = 1
    /\ \E sts \in StoredLists : store = storedList(sts)
    /\ \E n \in {0, MaxLegacy, MaxItems + 1} : legacy = legacyList(n)
    /\ localStorage = [profiles |-> Stored(<<DefaultProfile>>), active |-> NoKey]
    /\ profiles = <<DefaultProfile>>
    /\ editingProfileId = NoProfile
    /\ activeProfileId = DEFAULT_PROFILE
    /\ InitMemory
    /\ jobs = [j \in 1..MaxJobs |-> IdleJob]
    /\ idbq = <<initTxn("zh")>>
    /\ removed = {}
    /\ deletedProfiles = {}
    /\ trend = NoTrend

NextLoad ==
    \/ \E i \in 1..Len(idbq) : migrateRead(i)
    \/ \E i \in 1..Len(idbq) : migrateWritten(i)
    \/ \E i \in 1..Len(idbq) : initLoaded(i)
    \/ toggleLanguage
    \/ Reload

SpecLoad == InitLoad /\ [][NextLoad]_vars

\* a persisted history is loaded, cleared by the user, and loaded again
NextClear ==
    \/ \E i \in 1..Len(idbq) : migrateRead(i)
    \/ \E i \in 1..Len(idbq) : migrateWritten(i)
    \/ \E i \in 1..Len(idbq) : initLoaded(i)
    \/ clearHistory
    \/ \E i \in 1..Len(idbq) : cleared(i)
    \/ Reload

SpecClear == InitLoad /\ [][NextClear]_vars

(* ---------------------------- one session ---------------------------- *)
\* the page stays open and the language is left alone
NextSession ==
    \/ Tick
    \/ \E j \in 1..MaxJobs, bg \in BOOLEAN : handleAnalysis(j, OneImage, bg)
    \/ \E j \in 1..MaxJobs : thumbnailReady(j)
    \/ \E j \in 1..MaxJobs, data \in Results : analysisResolved(j, data)
    \/ \E j \in 1..MaxJobs, err \in Errors : analysisRejected(j, err)
    \/ \E i \in 1..Len(idbq) : saveItemRead(i)
    \/ \E i \in 1..Len(idbq) : saveItemWritten(i)
    \/ reset
    \/ \E i \in 1..Len(history) : loadHistoryItem(i)
    \/ \E i \in 1..Len(idbq) : initLoaded(i)

\* IndexedDB completes every transaction it has been given
StorageCompletes ==
    /\ WF_vars(\E i \in 1..Len(idbq) : initLoaded(i))
    /\ WF_vars(\E i \in 1..Len(idbq) : saveItemRead(i))
    /\ WF_vars(\E i \in 1..Len(idbq) : saveItemWritten(i))

SpecSession == Init /\ [][NextSession]_vars /\ StorageCompletes

\* the lifecycle together with the removal of records by the user
NextRemove ==
    \/ NextSession
    \/ \E i \in 1..Len(history) : deleteHistoryItem(i)
    \/ \E i \in 1..Len(idbq) : deleteItemRead(i)
    \/ \E i \in 1..Len(idbq) : deleteItemWritten(i)
    \/ clearHistory
    \/ \E i \in 1..Len(idbq) : cleared(i)

SpecRemove == Init /\ [][NextRemove]_vars

(* ------------------------- the report date --------------------------- *)
\* the dates the date input of the home view is set to
ReportDates == {1, 2}

\* onChange of the date input: setReportDate(e.target.value)
setReportDate(date) ==
    /\ HomeView
    /\ reportDate' = date
    /\ UNCHANGED <<now, persisted, history, ui, language, activeProfileId,
                   profiles, editingProfileId, jobs, idbq, observed>>

NextDated ==
    \/ NextSession
    \/ \E date \in ReportDates : setReportDate(date)

SpecDated == Init /\ [][NextDated]_vars

(* ------------------ a session after a former one -------------------- *)
\* the store holds what a former session left; the legacy key is not set
InitRepair ==
    /\ InitLoad
    /\ legacy = <<>>

SpecRepair == InitRepair /\ [][NextSession]_vars

(* ------------------------ storage that fails ------------------------- *)
\* saveItem of a job threw (the get or the set of idb-keyval rejected):
\* saveToHistory catches, and performAnalysis continues after its await
saveItemFailed(i) ==
    /\ i \in 1..Len(idbq)
    /\ idbq[i].kind \in {"saveGet", "saveSet"}
    /\ CanComplete(i)
    /\ LET txn == idbq[i]
           j == txn.job
           terminal == txn.item.status # "processing"
           foreground == terminal /\ foregroundJob(j)
       IN  /\ history' = saveToHistory(FALSE, txn.list)
           /\ idbq' = RemoveAt(idbq, i)
           /\ jobs' = IF terminal THEN [jobs EXCEPT ![j].pc = "done"]
                      ELSE jobs
           /\ IF foreground /\ txn.item.status = "completed"
              THEN /\ result' = txn.item.result
                   /\ loading' = FALSE
                   /\ activeHistoryId' = txn.item.id
                   /\ UNCHANGED <<error, images>>
              ELSE IF foreground
              THEN /\ error' = txn.item.summary
                   /\ loading' = FALSE
                   /\ activeHistoryId' = NoId
                   /\ UNCHANGED <<result, images>>
              ELSE UNCHANGED ui
    /\ UNCHANGED <<now, persisted, prefs, observed>>

NextFailing ==
    \/ NextSession
    \/ \E i \in 1..Len(idbq) : saveItemFailed(i)

SpecFailing == Init /\ [][NextFailing]_vars

(* ---------------------- profileService, called ------------------------ *)
MaxProfiles == 3    \* profiles stored when another one is added

ProfileNames == {"N1", "N2"}
ProfileIds == {DEFAULT_PROFILE} \cup {toString(n) : n \in 1..MaxClock}

\* before the first call: PROFILE_KEY was never set, the React state is as
\* useState leaves it
InitService ==
    /\ now = 1
    /\ store = <<>>
    /\ legacy = <<>>
    /\ localStorage = [profiles |-> Absent, active |-> NoKey]
    /\ profiles = <<>>
    /\ editingProfileId = NoProfile
    /\ activeProfileId = ""
    /\ InitMemory
    /\ jobs = [j \in 1..MaxJobs |-> IdleJob]
    /\ idbq = <<>>
    /\ removed = {}
    /\ deletedProfiles = {}
    /\ trend = NoTrend

serviceFrame ==
    UNCHANGED <<now, store, legacy, history, ui, prefs, jobs, idbq, removed,
                trend>>

getProfilesCall ==
    /\ localStorage' = [localStorage EXCEPT
                          !.profiles = getProfilesSaved(localStorage.profiles)]
    /\ UNCHANGED deletedProfiles
    /\ serviceFrame

addProfileCall(name) ==
    /\ Len(getProfiles(localStorage.profiles)) < MaxProfiles
    /\ localStorage' = [localStorage EXCEPT
          !.profiles = Stored(addProfile(localStorage.profiles,
                                         toString(now), name))]
    /\ UNCHANGED deletedProfiles
    /\ serviceFrame

updateProfileCall(id, name) ==
    /\ localStorage' = [localStorage EXCEPT
          !.profiles =
             IF findProfile(getProfiles(localStorage.profiles), id) > 0
             THEN Stored(updateProfile(localStorage.profiles, id, name))
             ELSE getProfilesSaved(localStorage.profiles)]
    /\ UNCHANGED deletedProfiles
    /\ serviceFrame

deleteProfileCall(id) ==
    /\ localStorage' = [localStorage EXCEPT
          !.profiles = Stored(deleteProfile(localStorage.profiles, id))]
    /\ deletedProfiles' = deletedProfiles \cup {id}
    /\ serviceFrame

ServiceCall ==
    \/ getProfilesCall
    \/ \E name \in ProfileNames : addProfileCall(name)
    \/ \E id \in ProfileIds, name \in ProfileNames :
          updateProfileCall(id, name)
    \/ \E id \in ProfileIds : deleteProfileCall(id)

NextService ==
    \/ Tick
    \/ ServiceCall

SpecService == InitService /\ [][NextService]_vars

(* -------------------------- ProfileSelector --------------------------- *)
\* the frame of the profile handlers
profileFrame ==
    UNCHANGED <<now, store, legacy, history, ui, language, reportDate, jobs,
                idbq, removed, trend>>

\* the list is shown (neither the edit form nor the create form)
ViewMode == HomeView /\ editingProfileId = NoProfile

\* handleCreate with newProfileName = name: addProfile, onProfilesUpdate,
\* onProfileChange(newProfile.id), startEditing(newProfile)
handleCreate(name) ==
    /\ ViewMode
    /\ Len(profiles) < MaxProfiles
    /\ LET id == toString(now)
           saved == Stored(addProfile(localStorage.profiles, id, name))
       IN  /\ localStorage' = [profiles |-> saved, active |-> id]
           /\ profiles' = getProfiles(saved)
           /\ activeProfileId' = id
           /\ editingProfileId' = id
    /\ UNCHANGED deletedProfiles
    /\ profileFrame

\* a profile of the list is clicked: handleProfileChange(p.id)
handleProfileChange(i) ==
    /\ ViewMode
    /\ i \in 1..Len(profiles)
    /\ activeProfileId' = profiles[i].id
    /\ localStorage' = [localStorage EXCEPT !.active = profiles[i].id]
    /\ UNCHANGED <<profiles, editingProfileId, deletedProfiles>>
    /\ profileFrame

\* the edit button, which the active profile shows: startEditing(p)
startEditing(i) ==
    /\ ViewMode
    /\ i \in 1..Len(profiles)
    /\ profiles[i].id = activeProfileId
    /\ editingProfileId' = profiles[i].id
    /\ UNCHANGED <<localStorage, profiles, activeProfileId, deletedProfiles>>
    /\ profileFrame

\* saveEdit with editForm.name = name
saveEdit(name) ==
    /\ HomeView
    /\ editingProfileId # NoProfile
    /\ LET list == getProfiles(localStorage.profiles)
           updated == updateProfile(localStorage.profiles, editingProfileId,
                                    name)
       IN  /\ localStorage' = [localStorage EXCEPT !.profiles =
                 IF findProfile(list, editingProfileId) > 0
                 THEN Stored(updated)
                 ELSE getProfilesSaved(localStorage.profiles)]
           /\ profiles' = updated
    /\ editingProfileId' = NoProfile
    /\ UNCHANGED <<activeProfileId, deletedProfiles>>
    /\ profileFrame

\* the cancel button of the edit form
cancelEdit ==
    /\ HomeView
    /\ editingProfileId # NoProfile
    /\ editingProfileId' = NoProfile
    /\ UNCHANGED <<localStorage, profiles, activeProfileId, deletedProfiles>>
    /\ profileFrame

\* handleDelete as it would be if it left the active profile alone
activeAfterDeleteKept(id, updated) == activeProfileId

\* handleDelete: if (activeProfileId === id) onProfileChange(updated[0].id)
activeAfterDelete(id, updated) ==
    IF activeProfileId = id THEN updated[1].id ELSE activeProfileId

\* handleDelete(editingProfileId), confirmed; the button is shown when
\* profiles.length > 1
handleDelete ==
    /\ HomeView
    /\ editingProfileId # NoProfile
    /\ Len(profiles) > 1
    /\ LET id == editingProfileId
           updated == deleteProfile(localStorage.profiles, id)
           active == activeAfterDelete(id, updated)
       IN  /\ localStorage' =
                 [profiles |-> Stored(updated),
                  active |-> IF active # activeProfileId THEN active
                             ELSE localStorage.active]
           /\ profiles' = updated
           /\ activeProfileId' = active
           /\ deletedProfiles' = deletedProfiles \cup {id}
    /\ editingProfileId' = NoProfile
    /\ profileFrame

NextProfiles ==
    \/ Tick
    \/ \E name \in ProfileNames : handleCreate(name)
    \/ \E i \in 1..Len(profiles) : handleProfileChange(i)
    \/ \E i \in 1..Len(profiles) : startEditing(i)
    \/ \E name \in ProfileNames : saveEdit(name)
    \/ cancelEdit
    \/ handleDelete
    \/ Reload

SpecProfiles == Init /\ [][NextProfiles]_vars

(* ------------------------- getIndicatorTrend -------------------------- *)
MaxHistory == 2     \* records in the history when a series is built

MsPerDay == 86400000

\* an Indicator: name is a string (a sequence of letters), valueNumber is
\* optional
Indicator(name, hasValueNumber, valueNumber) ==
    [name |-> name, hasValueNumber |-> hasValueNumber,
     valueNumber |-> valueNumber]

\* result.type of the AnalysisResult values of the model
resultType(res) ==
    CASE res = NoResult -> "undefined"
      [] res = "R3" -> "MEDICATION"
      [] OTHER -> "REPORT"

\* result.indicators of the AnalysisResult values of the model (<<>> when
\* the result has none)
resultIndicators(res) ==
    CASE res = "R1" -> <<Indicator(<<"A">>, TRUE, 5)>>
      [] res = "R2" -> <<Indicator(<<"A", "B">>, TRUE, 7),
                         Indicator(<<"A">>, TRUE, 9)>>
      [] res = "R3" -> <<Indicator(<<"A">>, TRUE, 3)>>
      [] res = "R4" -> <<Indicator(<<"A">>, FALSE, 0)>>
      [] OTHER -> <<>>

\* String.prototype.includes: a.includes(b)
includes(a, b) ==
    \E i \in 0..(Len(a) - Len(b)) : SubSeq(a, i + 1, i + Len(b)) = b

\* the callback of indicators.find
nameMatches(i, indicatorName) ==
    \/ i.name = indicatorName
    \/ includes(i.name, indicatorName)
    \/ includes(indicatorName, i.name)

\* formatDateShort(timestamp): the day of the timestamp
formatDateShort(timestamp) == timestamp \div MsPerDay

\* new Date(date).getTime() of a day
getTime(date) == date * MsPerDay

\* item.reportDate || formatDateShort(item.timestamp)
itemDate(item) ==
    IF item.reportDate # 0 THEN item.reportDate
    ELSE formatDateShort(item.timestamp)

\* the filter as it would be if it kept every record
profileHistoryAll(h, active) == TRUE

\* the callback of history.filter: !h.profileId || h.profileId === active
profileHistory(h, active) ==
    h.profileId \in {"undefined", ""} \/ h.profileId = active

\* the body of profileHistory.forEach: the points item adds to trend
pointsOf(item, indicatorName) ==
    IF /\ item.status = "completed"
       /\ resultType(item.result) = "REPORT"
       /\ \E k \in 1..Len(resultIndicators(item.result)) :
             nameMatches(resultIndicators(item.result)[k], indicatorName)
    THEN LET indicators == resultIndicators(item.result)
             m == CHOOSE k \in 1..Len(indicators) :
                     /\ nameMatches(indicators[k], indicatorName)
                     /\ \A l \in 1..(k - 1) :
                            ~nameMatches(indicators[l], indicatorName)
         IN  IF indicators[m].hasValueNumber
             THEN <<[date |-> itemDate(item),
                     value |-> indicators[m].valueNumber,
                     isCurrent |-> FALSE]>>
             ELSE <<>>
    ELSE <<>>

RECURSIVE collect(_, _, _)
collect(list, active, indicatorName) ==
    IF list = <<>> THEN <<>>
    ELSE (IF profileHistory(Head(list), active)
          THEN pointsOf(Head(list), indicatorName) ELSE <<>>)
         \o collect(Tail(list), active, indicatorName)

\* trend.sort((a, b) => getTime(a.date) - getTime(b.date)); the sort is stable
RECURSIVE insertSorted(_, _)
insertSorted(sorted, x) ==
    IF sorted = <<>> THEN <<x>>
    ELSE IF getTime(Head(sorted).date) - getTime(x.date) <= 0
         THEN <<Head(sorted)>> \o insertSorted(Tail(sorted), x)
         ELSE <<x>> \o sorted

\* the sort as it would be if it left the points in scan order
unsorted(list) == list

RECURSIVE sortByDate(_)
sortByDate(list) ==
    IF list = <<>> THEN <<>>
    ELSE insertSorted(sortByDate(SubSeq(list, 1, Len(list) - 1)),
                      list[Len(list)])

\* the seenDates loop as it would be if a later point replaced the one seen
RECURSIVE uniqueTrendLast(_, _)
uniqueTrendLast(list, seenDates) ==
    IF list = <<>> THEN <<>>
    ELSE IF \E k \in 2..Len(list) : list[k].date = Head(list).date
         THEN uniqueTrendLast(Tail(list), seenDates)
         ELSE <<Head(list)>> \o uniqueTrendLast(Tail(list), seenDates)

\* the seenDates loop: the first point of every date
RECURSIVE uniqueTrend(_, _)
uniqueTrend(list, seenDates) ==
    IF list = <<>> THEN <<>>
    ELSE IF Head(list).date \in seenDates
         THEN uniqueTrend(Tail(list), seenDates)
         ELSE <<Head(list)>>
              \o uniqueTrend(Tail(list), seenDates \cup {Head(list).date})

\* the callback of the map as it would be if it kept the flag it was given
markNone(t, currentDate) == t

\* the callback of uniqueTrend.map: {...t, isCurrent: t.date === currentDate}
markCurrent(t, currentDate) ==
    [t EXCEPT !.isCurrent = (t.date = currentDate)]

getIndicatorTrend(hist, active, indicatorName, currentVal, currentDate) ==
    LET unique == uniqueTrend(sortByDate(collect(hist, active, indicatorName)),
                              {})
    IN  [k \in 1..Len(unique) |-> markCurrent(unique[k], currentDate)]

IndicatorNames == {<<"A">>, <<"A", "B">>, <<"C">>}
TrendDates == {1, 2}
TrendResults == {"R1", "R2", "R3", "R4"}
TrendProfiles == {"undefined", DEFAULT_PROFILE, toString(1)}

\* the records a history can hold: any profile, settled either way, with a
\* report date or (reportDate empty) the day of its timestamp
TrendItems ==
    {[HistoryItem(0, pid, date, st, res, NoSummary) EXCEPT
         !.timestamp = IF date = 0 THEN 2 * MsPerDay + 1 ELSE 1]
       : pid \in TrendProfiles, date \in {0, 1},
         st \in {"completed", "failed"}, res \in TrendResults}

\* ids are given by position, newest first, as saveItem leaves them
TrendHistories ==
    {[k \in 1..Len(h) |-> [h[k] EXCEPT !.id = Len(h) + 1 - k]] :
        h \in UNION {[1..n -> TrendItems] : n \in 0..MaxHistory}}

InitTrend ==
    /\ now = 1
    /\ store = <<>>
    /\ legacy = <<>>
    /\ localStorage = [profiles |-> Stored(<<DefaultProfile>>), active |-> NoKey]
    /\ profiles = <<DefaultProfile>>
    /\ editingProfileId = NoProfile
    /\ activeProfileId \in {DEFAULT_PROFILE, toString(1)}
    /\ history \in TrendHistories
    /\ loading = FALSE
    /\ result = NoResult
    /\ error = NoError
    /\ activeHistoryId = NoId
    /\ images = NoId
    /\ language = "zh"
    /\ reportDate = 1
    /\ jobs = [j \in 1..MaxJobs |-> IdleJob]
    /\ idbq = <<>>
    /\ removed = {}
    /\ deletedProfiles = {}
    /\ trend = NoTrend

\* the render of an IndicatorCard: getIndicatorTrend(indicator.name,
\* indicator.valueNumber, reportDate)
renderTrend(indicatorName, currentVal, currentDate) ==
    /\ trend' = [indicatorName |-> indicatorName,
                 currentVal |-> currentVal,
                 currentDate |-> currentDate,
                 series |-> getIndicatorTrend(history, activeProfileId,
                                              indicatorName, currentVal,
                                              currentDate)]
    /\ UNCHANGED <<now, persisted, history, ui, prefs, jobs, idbq, removed,
                   deletedProfiles>>

NextTrend ==
    \E indicatorName \in IndicatorNames, currentDate \in TrendDates :
        renderTrend(indicatorName, 5, currentDate)

SpecTrend == InitTrend /\ [][NextTrend]_vars

\* the render of the k-th IndicatorCard of the result view: the trend of
\* result.indicators[k], built when it has a valueNumber
renderCard(k) ==
    /\ ResultView
    /\ resultType(result) = "REPORT"
    /\ k \in 1..Len(resultIndicators(result))
    /\ resultIndicators(result)[k].hasValueNumber
    /\ renderTrend(resultIndicators(result)[k].name,
                   resultIndicators(result)[k].valueNumber, reportDate)

\* a record of the history list is opened, its cards are rendered, and the
\* back button leads to the list again
NextCard ==
    \/ \E i \in 1..MaxHistory : loadHistoryItem(i)
    \/ \E k \in 1..Len(resultIndicators(result)) : renderCard(k)
    \/ reset

SpecCard == InitTrend /\ [][NextCard]_vars

(* ----------------------------- FileUpload ----------------------------- *)
MaxStaged == 2      \* files staged when the start button is pressed
MaxPages == 1       \* images convertPdfToImages returns for one PDF

\* a StagedFile: its status, whether it is a PDF, and the number of images it
\* holds (a ready image whose data URL has no payload holds none)
StagedFile ==
    [status : {"reading", "ready", "error"}, isPdf : BOOLEAN,
     pages : 0..MaxPages]

StagedFiles == UNION {[1..n -> StagedFile] : n \in 0..MaxStaged}

\* !!f.base64Data: JSON.stringify of a page list is never empty, the payload
\* of an image is empty when it holds no image
hasBase64Data(f) == f.isPdf \/ f.pages > 0

\* stagedFiles.filter(f => f.status === 'ready' && f.base64Data)
RECURSIVE readyFiles(_)
readyFiles(files) ==
    IF files = <<>> THEN <<>>
    ELSE IF Head(files).status = "ready" /\ hasBase64Data(Head(files))
         THEN <<Head(files)>> \o readyFiles(Tail(files))
         ELSE readyFiles(Tail(files))

\* the length of allBase64: every page of a PDF, one entry per image
RECURSIVE allBase64(_)
allBase64(ready) ==
    IF ready = <<>> THEN 0
    ELSE (IF Head(ready).isPdf THEN Head(ready).pages ELSE 1)
         + allBase64(Tail(ready))

\* handleStartAnalysis with stagedFiles = files: onAnalyze is handleAnalysis;
\* FileUpload is mounted in the home view only
handleStartAnalysis(j, files, runInBackground) ==
    /\ HomeView
    /\ jobs[j].pc = "idle"
    /\ Len(readyFiles(files)) > 0
    /\ handleAnalysis(j, allBase64(readyFiles(files)), runInBackground)

\* createThumbnail rejected: handleAnalysis ends there, its promise rejected
createThumbnailThrew(j) ==
    /\ jobs[j].pc = "thumb"
    /\ ~createThumbnailResolves(jobs[j].images)
    /\ jobs' = [jobs EXCEPT ![j].pc = "rejected"]
    /\ UNCHANGED <<now, persisted, history, ui, prefs, idbq, observed>>

NextUpload ==
    \/ Tick
    \/ \E j \in 1..MaxJobs, files \in StagedFiles, bg \in BOOLEAN :
          handleStartAnalysis(j, files, bg)
    \/ \E j \in 1..MaxJobs : thumbnailReady(j)
    \/ \E j \in 1..MaxJobs : createThumbnailThrew(j)
    \/ \E j \in 1..MaxJobs, data \in Results : analysisResolved(j, data)
    \/ \E j \in 1..MaxJobs, err \in Errors : analysisRejected(j, err)
    \/ \E i \in 1..Len(idbq) : saveItemRead(i)
    \/ \E i \in 1..Len(idbq) : saveItemWritten(i)
    \/ reset
    \/ \E i \in 1..Len(idbq) : initLoaded(i)

SpecUpload == Init /\ [][NextUpload]_vars

(* ------------------------- chat of a record --------------------------- *)
\* the message lists ChatAssistant hands to onMessagesUpdate
Transcripts == {<<"user">>, <<"user", "model">>}

\* handleChatUpdate(newMessages) up to `await this.getAll()` of saveItem
handleChatUpdate(newMessages) ==
    /\ Len(idbq) < MaxQueue
    /\ ResultView
    /\ activeHistoryId # NoId
    /\ LET index == findIndex(history, activeHistoryId)
       IN  /\ index > 0
           /\ idbq' = Append(idbq,
                  Txn("chatGet", 0,
                      [history[index] EXCEPT !.chatHistory = newMessages],
                      <<>>, language, NoId))
    /\ UNCHANGED <<now, persisted, history, ui, prefs, jobs, observed>>

\* saveItem called by handleChatUpdate: getAll resolved, set starts
chatSaveRead(i) ==
    /\ i \in 1..Len(idbq)
    /\ idbq[i].kind = "chatGet"
    /\ CanComplete(i)
    /\ idbq' = Append(RemoveAt(idbq, i),
                      [idbq[i] EXCEPT !.kind = "chatSet",
                                      !.list = saveItem(store, idbq[i].item)])
    /\ UNCHANGED <<now, persisted, history, ui, prefs, jobs, observed>>

\* saveItem called by handleChatUpdate: set resolved, setHistory(updated)
chatSaveWritten(i) ==
    /\ i \in 1..Len(idbq)
    /\ idbq[i].kind = "chatSet"
    /\ CanComplete(i)
    /\ store' = idbq[i].list
    /\ history' = idbq[i].list
    /\ idbq' = RemoveAt(idbq, i)
    /\ UNCHANGED <<now, legacy, localStorage, ui, prefs, jobs, observed>>

\* one session: the job lifecycle and the chat of the displayed record
NextChat ==
    \/ NextSession
    \/ \E newMessages \in Transcripts : handleChatUpdate(newMessages)
    \/ \E i \in 1..Len(idbq) : chatSaveRead(i)
    \/ \E i \in 1..Len(idbq) : chatSaveWritten(i)

SpecChat == Init /\ [][NextChat]_vars

(* ------------------------------ claims -------------------------------- *)
Submitted(j) == jobs[j].pc # "idle"

HasTerminal(list, id) ==
    \E k \in 1..Len(list) :
        list[k].id = id /\ list[k].status \in {"completed", "failed"}

\* C1: two distinct submissions never share a job id.
C1_UniqueJobIds ==
    \A j, k \in 1..MaxJobs :
        (j # k /\ Submitted(j) /\ Submitted(k)) => jobs[j].id # jobs[k].id

\* C2: while the analysis call of a submission is outstanding, the store
\* holds the pending record of that submission, scoped to its profile.
C2_PendingPersistedBeforeCall ==
    \A j \in 1..MaxJobs :
        jobs[j].pc = "analyzing" =>
            \E k \in 1..Len(store) :
                /\ store[k].id = jobs[j].id
                /\ store[k].status = "processing"
                /\ store[k].profileId = jobs[j].profileId

\* C3: the write of one job's saveItem never takes the terminal record of
\* another job out of the store.
C3_NoTerminalRecordLost ==
    [][\A i \in 1..Len(idbq), j \in 1..MaxJobs :
          (/\ saveItemWritten(i)
           /\ idbq[i].item.id # jobs[j].id
           /\ jobs[j].pc = "done"
           /\ HasTerminal(store, jobs[j].id))
          => HasTerminal(store', jobs[j].id)]_vars

\* C4: at most one terminal write is issued per job id.
C4_OneTerminalWritePerId ==
    \A j, k \in 1..MaxJobs :
        (j # k /\ jobs[j].outcome # "none" /\ jobs[k].outcome # "none")
        => jobs[j].id # jobs[k].id

TerminalKept(before, after) ==
    \A i \in 1..Len(before), k \in 1..Len(after) :
        (before[i].id = after[k].id
         /\ before[i].status \in {"completed", "failed"})
        => (after[k].status = before[i].status
            /\ after[k].result = before[i].result)

\* C5: a record that is completed or failed, in the store or in the history
\* state, keeps its status and result in every later state.
C5_TerminalAbsorbing ==
    [][TerminalKept(store, store') /\ TerminalKept(history, history')]_vars

\* C6: once the terminal write of a job has landed, no write of its pending
\* record is still on its way to the store.
C6_PendingWriteFirst ==
    \A j \in 1..MaxJobs :
        jobs[j].pc = "done" =>
            \A i \in 1..Len(idbq) :
                ~(idbq[i].kind \in {"saveGet", "saveSet"}
                  /\ idbq[i].job = j
                  /\ idbq[i].item.status = "processing")

\* C7: init presents every stored 'processing' record as failed, without a
\* result and with the interrupted summary, and every other record as stored.
C7_LoadRepairsPending ==
    [][\A i \in 1..Len(idbq) :
          initLoaded(i) =>
            /\ Len(history') = Len(store)
            /\ \A k \in 1..Len(store) :
                 IF store[k].status = "processing"
                 THEN /\ history'[k].id = store[k].id
                      /\ history'[k].status = "failed"
                      /\ history'[k].result = NoResult
                      /\ history'[k].summary = taskInterrupted(idbq[i].lang)
                 ELSE history'[k] = store[k]]_vars

\* a load has presented a pending record as failed next to a failed and a
\* completed record that it left as stored
C7_Witness ==
    /\ Len(history) = Len(store)
    /\ \E k \in 1..Len(store) :
         /\ store[k].status = "processing"
         /\ history[k].status = "failed"
         /\ history[k].summary = taskInterrupted(language)
    /\ \E k \in 1..Len(store) :
         store[k].status = "failed" /\ history[k] = store[k]

InFlight(j) == jobs[j].pc \in {"thumb", "analyzing", "saving"}

\* C8: after a load that no job of the running process overlaps, the store
\* holds no pending record any more (the repair has been written back).
C8_RepairPersisted ==
    [][\A i \in 1..Len(idbq) :
          (initLoaded(i) /\ \A j \in 1..MaxJobs : ~InFlight(j)) =>
            \A k \in 1..Len(store') : store'[k].status # "processing"]_vars

\* C9: the stored list never holds more than 50 records.
C9_AtMostMaxItems == Len(store) <= MaxItems

ResultIffCompleted(list) ==
    \A k \in 1..Len(list) :
        (list[k].result # NoResult) <=> (list[k].status = "completed")

\* C10: every record, stored or in the history state, has a result exactly
\* when its status is completed.
C10_ResultIffCompleted ==
    ResultIffCompleted(store) /\ ResultIffCompleted(history)

\* C11: a chat update whose target record is pending or failed writes
\* nothing: every chat save on its way to the store carries a completed record.
C11_ChatOnlyOnCompleted ==
    \A i \in 1..Len(idbq) :
        idbq[i].kind \in {"chatGet", "chatSet"}
        => idbq[i].item.status = "completed"

\* C12: the analysis call is never started for a job id whose analysis has
\* already failed: a retry by the user runs under a new id.
C12_NoCallAfterFailure ==
    [][\A k \in 1..MaxJobs :
          thumbnailReady(k) =>
            \A j \in 1..MaxJobs :
                jobs[j].outcome = "failed" => jobs[j].id # jobs[k].id]_vars

\* the text the catch block of performAnalysis has to produce for job j
ExpectedMessage(j, err) ==
    IF err = NoMessage THEN errorGeneric(jobs[j].lang) ELSE err

\* C13: a rejection of the analysis call is caught: the job goes on to save
\* a failed record whose summary is the error's message, or the generic text
\* when the message is empty, and when the save of a foreground job returns
\* the same text is in the error state and loading is cleared.
C13_RejectionBecomesFailedRecord ==
    [][/\ \A j \in 1..MaxJobs, err \in Errors :
            analysisRejected(j, err) =>
              /\ jobs'[j].pc = "saving"
              /\ LET txn == idbq'[Len(idbq')]
                 IN  /\ txn.kind = "saveGet"
                     /\ txn.item.id = jobs[j].id
                     /\ txn.item.status = "failed"
                     /\ txn.item.result = NoResult
                     /\ txn.item.summary = ExpectedMessage(j, err)
       /\ \A i \in 1..Len(idbq) :
            (saveItemWritten(i) /\ idbq[i].item.status = "failed") =>
              LET j == idbq[i].job
                  text == ExpectedMessage(j, jobs[j].err)
              IN  /\ jobs'[j].pc = "done"
                  /\ \E k \in 1..Len(store') :
                        /\ store'[k].id = jobs[j].id
                        /\ store'[k].status = "failed"
                        /\ store'[k].summary = text
                  /\ ~jobs[j].bg => (error' = text /\ ~loading')]_vars

\* a foreground job whose error had no message has ended: the generic text of
\* the language it was submitted in is stored and shown
C13_Witness ==
    \E j \in 1..MaxJobs :
        /\ jobs[j].pc = "done" /\ ~jobs[j].bg
        /\ jobs[j].err = NoMessage /\ jobs[j].lang = "en"
        /\ error = errorGeneric("en")
        /\ \E k \in 1..Len(store) :
              store[k].id = jobs[j].id /\ store[k].summary = error

\* C14: no step of the settlement of a background job (the analysis call
\* settling, the read and the write of its terminal record) changes result,
\* error, loading, images or activeHistoryId.
C14_BackgroundSettlementFrame ==
    [][/\ \A j \in 1..MaxJobs :
            (jobs[j].bg /\ (\E data \in Results : analysisResolved(j, data)
                            \/ \E err \in Errors : analysisRejected(j, err)))
            => UNCHANGED ui
       /\ \A i \in 1..Len(idbq) :
            ((saveItemRead(i) \/ saveItemWritten(i))
             /\ idbq[i].item.status \in {"completed", "failed"}
             /\ jobs[idbq[i].job].bg)
            => UNCHANGED ui]_vars

\* a background job has settled and its record is in the history while the
\* user is waiting for a foreground job of another id
C14_Witness ==
    \E j, k \in 1..MaxJobs :
        /\ jobs[j].bg /\ jobs[j].pc = "done"
        /\ HasTerminal(history, jobs[j].id)
        /\ ~jobs[k].bg /\ jobs[k].pc = "analyzing"
        /\ jobs[k].id # jobs[j].id
        /\ loading /\ activeHistoryId = jobs[k].id

\* the two ways loading is cleared for the job that wrote item
ShownAsSuccess(item) ==
    /\ item.status = "completed"
    /\ result' = item.result
    /\ activeHistoryId' = item.id

ShownAsFailure(item) ==
    /\ item.status = "failed"
    /\ error' # NoError
    /\ activeHistoryId' = NoId

\* C15: a foreground job whose analysis call has settled eventually reaches
\* the end of performAnalysis, where loading is cleared; at that step either
\* the result is the job's result and activeHistoryId its id, or the error is
\* set and activeHistoryId is null, and never both.
C15_ForegroundSettles ==
    /\ \A j \in 1..MaxJobs :
          (~jobs[j].bg /\ jobs[j].pc = "saving") ~> (jobs[j].pc = "done")
    /\ [][\A i \in 1..Len(idbq) :
            (/\ saveItemWritten(i)
             /\ idbq[i].item.status \in {"completed", "failed"}
             /\ ~jobs[idbq[i].job].bg)
            => /\ ~loading'
               /\ ShownAsSuccess(idbq[i].item) # ShownAsFailure(idbq[i].item)
               /\ ShownAsSuccess(idbq[i].item)
                    <=> (jobs[idbq[i].job].outcome = "completed")]_vars

\* a foreground job has ended in success and is displayed
C15_Witness ==
    \E j \in 1..MaxJobs :
        /\ ~jobs[j].bg /\ jobs[j].pc = "done"
        /\ jobs[j].outcome = "completed"
        /\ ~loading /\ result = "R1" /\ activeHistoryId = jobs[j].id
        /\ error = NoError

\* C16: when saveItem throws for a terminal record, the history state and
\* the store keep their content, the job still reaches the end of
\* performAnalysis, and a foreground job shows its result (or its error) with
\* loading cleared.
C16_SaveFailureSwallowed ==
    [][\A i \in 1..Len(idbq) :
          (saveItemFailed(i) /\ idbq[i].item.status \in {"completed", "failed"})
          => LET item == idbq[i].item
                 j == idbq[i].job
             IN  /\ history' = history
                 /\ store' = store
                 /\ jobs'[j].pc = "done"
                 /\ ~jobs[j].bg =>
                      /\ ~loading'
                      /\ item.status = "completed" =>
                            (result' = item.result /\ activeHistoryId' = item.id)
                      /\ item.status = "failed" =>
                            (error' = item.summary /\ activeHistoryId' = NoId)
                 /\ jobs[j].bg => UNCHANGED ui]_vars

\* the only job submitted was a foreground job; its result is displayed, and
\* neither the store nor the history holds its record
C16_Witness ==
    /\ jobs[1].pc = "done" /\ ~jobs[1].bg /\ jobs[1].outcome = "completed"
    /\ \A j \in 2..MaxJobs : jobs[j].pc = "idle"
    /\ result = "R1" /\ ~loading /\ activeHistoryId = jobs[1].id
    /\ store = <<>> /\ history = <<>>

\* C17: a submission without images creates no job: it never reaches the
\* analysis call, no storage call is made for it, and while only such
\* submissions have been made the store and the history are empty; this holds
\* when a ready PDF that converted to zero pages is the only staged file.
C17_NoJobWithoutImages ==
    /\ \A j \in 1..MaxJobs :
          (Submitted(j) /\ jobs[j].images = 0) =>
             /\ jobs[j].pc \in {"thumb", "rejected"}
             /\ jobs[j].outcome = "none"
             /\ \A i \in 1..Len(idbq) : idbq[i].job # j
    /\ (\A j \in 1..MaxJobs : jobs[j].images = 0) =>
          (store = <<>> /\ history = <<>> /\ ~loading)

\* the submission of a list without images has ended in a rejection, next to
\* a submission with images that has been recorded
C17_Witness ==
    \E j, k \in 1..MaxJobs :
        /\ jobs[j].pc = "rejected" /\ jobs[j].images = 0
        /\ jobs[k].pc = "done" /\ jobs[k].images > 1
        /\ Len(store) = 1 /\ store[1].id = jobs[k].id
        /\ jobs[j].id # jobs[k].id

\* C18: once profileService has been called, PROFILE_KEY holds a list that
\* is not empty, and deleteProfile of the id of every stored profile leaves
\* exactly the default profile.
C18_ProfilesNeverEmpty ==
    [][/\ ServiceCall => localStorage'.profiles # Absent
       /\ localStorage'.profiles # Absent
            => Len(localStorage'.profiles[1]) > 0
       /\ \A id \in ProfileIds :
            (/\ deleteProfileCall(id)
             /\ \A k \in 1..Len(getProfiles(localStorage.profiles)) :
                    getProfiles(localStorage.profiles)[k].id = id)
            => localStorage'.profiles = Stored(<<DefaultProfile>>)]_vars

\* the default profile and an added profile have both been deleted, and the
\* list is the default profile alone
C18_Witness ==
    /\ DEFAULT_PROFILE \in deletedProfiles
    /\ toString(1) \in deletedProfiles
    /\ localStorage.profiles = Stored(<<DefaultProfile>>)

HasProfile(list, id) == \E k \in 1..Len(list) : list[k].id = id

\* C19: the active profile id, in the React state and as getActiveProfileId
\* reads it from localStorage, is the id of a profile of the list; deleting
\* the active profile makes the first profile of the list that deleteProfile
\* returned active, which is the default profile when none was left.
C19_ActiveProfileInList ==
    /\ [](/\ HasProfile(profiles, activeProfileId)
          /\ HasProfile(getProfiles(localStorage.profiles),
                        getActiveProfileId(localStorage.active)))
    /\ [][(handleDelete /\ activeProfileId = editingProfileId) =>
            LET left == filterProfiles(profiles, editingProfileId)
            IN  /\ activeProfileId' = getActiveProfileId(localStorage'.active)
                /\ activeProfileId' =
                      IF Len(left) > 0 THEN left[1].id ELSE DEFAULT_PROFILE]_vars

\* the default profile was deleted while it was active, and a profile that
\* was left is active, in the React state and in localStorage
C19_Witness ==
    /\ DEFAULT_PROFILE \in deletedProfiles
    /\ ~HasProfile(profiles, DEFAULT_PROFILE)
    /\ activeProfileId # DEFAULT_PROFILE
    /\ HasProfile(profiles, activeProfileId)
    /\ localStorage.active = activeProfileId

\* a record getIndicatorTrend may take a point from
MayContribute(item) ==
    /\ item.status = "completed"
    /\ resultType(item.result) = "REPORT"
    /\ item.profileId \in {"undefined", "", activeProfileId}

RECURSIVE WithoutOtherProfiles(_)
WithoutOtherProfiles(list) ==
    IF list = <<>> THEN <<>>
    ELSE IF Head(list).profileId \in {"undefined", "", activeProfileId}
         THEN <<Head(list)>> \o WithoutOtherProfiles(Tail(list))
         ELSE WithoutOtherProfiles(Tail(list))

\* C20: every point of a series has the date and a value of a matching
\* indicator of a history record that is completed, of type REPORT, and has
\* no profileId or the active one; the series is the one the history
\* without the records of other profiles gives.
C20_TrendFromOwnProfile ==
    trend # NoTrend =>
      /\ \A p \in 1..Len(trend.series) :
            \E k \in 1..Len(history) :
               /\ MayContribute(history[k])
               /\ itemDate(history[k]) = trend.series[p].date
               /\ \E i \in 1..Len(resultIndicators(history[k].result)) :
                     LET ind == resultIndicators(history[k].result)[i]
                     IN  /\ nameMatches(ind, trend.indicatorName)
                         /\ ind.hasValueNumber
                         /\ ind.valueNumber = trend.series[p].value
      /\ trend.series =
            getIndicatorTrend(WithoutOtherProfiles(history), activeProfileId,
                              trend.indicatorName, 5, trend.currentDate)

\* a series with a point was built from a history that holds a completed
\* report of another profile with the indicator, on a day of its own
C20_Witness ==
    /\ Len(trend.series) > 0
    /\ \E k \in 1..Len(history) :
          /\ history[k].profileId \notin {"undefined", activeProfileId}
          /\ history[k].status = "completed"
          /\ history[k].result = "R1"
          /\ trend.indicatorName = <<"A">>
          /\ \A p \in 1..Len(trend.series) :
                trend.series[p].date # itemDate(history[k])

\* the records of the history, by position, that give the series of
\* indicatorName a point dated date
Contributing(indicatorName, date) ==
    {k \in 1..Len(history) :
        /\ MayContribute(history[k])
        /\ pointsOf(history[k], indicatorName) # <<>>
        /\ itemDate(history[k]) = date}

\* the value the record at position k gives the series of indicatorName
ContributedValue(k, indicatorName) ==
    pointsOf(history[k], indicatorName)[1].value

EntriesDated(date) ==
    {p \in 1..Len(trend.series) : trend.series[p].date = date}

\* C21 as stated: when two contributing records resolve to the same date,
\* the series holds exactly one entry for that date, and it carries the
\* value of the record scanned last in history order.
C21_LastScannedWins ==
    trend # NoTrend =>
      \A date \in {itemDate(history[k]) : k \in 1..Len(history)} :
         LET from == Contributing(trend.indicatorName, date)
         IN  Cardinality(from) >= 2 =>
               /\ Cardinality(EntriesDated(date)) = 1
               /\ \A p \in EntriesDated(date) :
                     trend.series[p].value =
                        ContributedValue(CHOOSE k \in from :
                                            \A l \in from : l <= k,
                                         trend.indicatorName)

\* C21 as amended: when two contributing records resolve to the same date,
\* the series holds exactly one entry for that date, and it carries the
\* value of the record scanned first in history order (the newest record).
C21_FirstScannedWins ==
    trend # NoTrend =>
      \A date \in {itemDate(history[k]) : k \in 1..Len(history)} :
         LET from == Contributing(trend.indicatorName, date)
         IN  Cardinality(from) >= 2 =>
               /\ Cardinality(EntriesDated(date)) = 1
               /\ \A p \in EntriesDated(date) :
                     trend.series[p].value =
                        ContributedValue(CHOOSE k \in from :
                                            \A l \in from : k <= l,
                                         trend.indicatorName)

\* a series was built from two records of one date that give different
\* values, and its entry of that date has the value of the first of them
C21_Witness ==
    /\ trend # NoTrend
    /\ \E k1, k2 \in 1..Len(history) :
          /\ k1 < k2
          /\ {k1, k2} \subseteq
                Contributing(trend.indicatorName, itemDate(history[k1]))
          /\ ContributedValue(k1, trend.indicatorName)
                # ContributedValue(k2, trend.indicatorName)
          /\ \E p \in 1..Len(trend.series) :
                /\ trend.series[p].date = itemDate(history[k1])
                /\ trend.series[p].value
                      = ContributedValue(k1, trend.indicatorName)

\* C22: the series getIndicatorTrend returns is strictly ascending by parsed
\* date: of two adjacent entries the earlier one has the smaller date, and
\* no two entries share a date.
C22_StrictlyAscending ==
    trend # NoTrend =>
      /\ \A p \in 1..(Len(trend.series) - 1) :
            getTime(trend.series[p].date) < getTime(trend.series[p + 1].date)
      /\ \A p, q \in 1..Len(trend.series) :
            trend.series[p].date = trend.series[q].date => p = q

\* a series of two entries was built from a history whose newer record has
\* the later date, so the scan met the dates in descending order
C22_Witness ==
    /\ trend # NoTrend
    /\ Len(trend.series) = 2
    /\ \E k1, k2 \in 1..Len(history) :
          /\ k1 < k2
          /\ Contributing(trend.indicatorName, itemDate(history[k1])) = {k1}
          /\ Contributing(trend.indicatorName, itemDate(history[k2])) = {k2}
          /\ getTime(itemDate(history[k1])) > getTime(itemDate(history[k2]))

CurrentEntries == {p \in 1..Len(trend.series) : trend.series[p].isCurrent}

\* C23: an entry of the returned series is marked isCurrent exactly when its
\* date equals currentDate; at most one entry is marked, and when no entry
\* has that date none is marked.
C23_CurrentIffDate ==
    trend # NoTrend =>
      /\ \A p \in 1..Len(trend.series) :
            trend.series[p].isCurrent
               <=> trend.series[p].date = trend.currentDate
      /\ Cardinality(CurrentEntries) <= 1
      /\ EntriesDated(trend.currentDate) = {} => CurrentEntries = {}

\* a series of two entries was built, and the one dated currentDate is the
\* only one marked
C23_Witness ==
    /\ trend # NoTrend
    /\ Len(trend.series) = 2
    /\ Cardinality(CurrentEntries) = 1
    /\ \A p \in CurrentEntries : trend.series[p].date = trend.currentDate

\* C28: in a series built by getIndicatorTrend(indicatorName, currentVal,
\* currentDate) the entry marked isCurrent carries the value currentVal,
\* also when another report of the profile has the report date of the
\* displayed one.
C28_CurrentEntryHasCurrentVal ==
    trend # NoTrend =>
      \A p \in CurrentEntries : trend.series[p].value = trend.currentVal

\* both jobs completed, under ids of their own, for the active profile and
\* with different report dates, and the storage has nothing left to do
TwoReportsCompleted ==
    /\ jobs[1].id # jobs[2].id
    /\ \A j \in 1..2 :
          /\ jobs[j].pc = "done"
          /\ jobs[j].outcome = "completed"
          /\ jobs[j].profileId = activeProfileId
    /\ jobs[1].reportDate # jobs[2].reportDate
    /\ idbq = <<>>

\* C24: after two completed submissions of one profile with distinct report
\* dates, both REPORT results holding indicator A with a value (5 in either
\* result), the series built for A with currentDate the later date is
\* exactly [{earlier date, 5, not current}, {later date, 5, current}].
C24_TwoReportsSeries ==
    TwoReportsCompleted =>
      LET earlier == IF jobs[1].reportDate < jobs[2].reportDate
                     THEN jobs[1].reportDate ELSE jobs[2].reportDate
          later == IF jobs[1].reportDate < jobs[2].reportDate
                   THEN jobs[2].reportDate ELSE jobs[1].reportDate
      IN  getIndicatorTrend(history, activeProfileId, <<"A">>, 5, later)
            = <<[date |-> earlier, value |-> 5, isCurrent |-> FALSE],
                [date |-> later, value |-> 5, isCurrent |-> TRUE]>>

\* C25 as stated: of two jobs, the one whose terminal record is written
\* later stands ahead of the other in the history list: right after a
\* terminal write, the record written is ahead of every other terminal
\* record of the list.
C25_LaterTerminalAhead ==
    [][\A i \in 1..Len(idbq) :
          (saveItemWritten(i) /\ idbq[i].item.status # "processing") =>
            \A p, q \in 1..Len(history') :
               (/\ history'[p].id = idbq[i].item.id
                /\ history'[q].id # idbq[i].item.id
                /\ history'[q].status \in {"completed", "failed"})
               => p < q]_vars

\* C25 as amended: the order of the list reflects insertion order, not
\* settlement order: a save keeps the records of the list it read in their
\* order, replaces the record of its own id in place, and puts a record
\* whose id the list does not hold at the head.
C25_InsertionOrderKept ==
    [][\A i \in 1..Len(idbq) :
          saveItemRead(i) =>
            LET item == idbq[i].item
                updated == idbq'[Len(idbq')].list
            IN  IF \E k \in 1..Len(store) : store[k].id = item.id
                THEN /\ Len(updated) = Len(store)
                     /\ \A k \in 1..Len(store) :
                           updated[k].id = store[k].id
                ELSE /\ updated[1].id = item.id
                     /\ \A k \in 1..Len(store) :
                           k + 1 <= Len(updated)
                              => updated[k + 1].id = store[k].id]_vars

\* the terminal record of job 2 has been written, the terminal record of
\* job 1 is about to be, and it stays behind the record of job 2
C25_Witness ==
    /\ jobs[1].id # jobs[2].id
    /\ jobs[2].pc = "done"
    /\ jobs[1].pc = "saving"
    /\ \E i \in 1..Len(idbq) :
          /\ idbq[i].kind = "saveSet"
          /\ idbq[i].item.id = jobs[1].id
          /\ idbq[i].item.status \in {"completed", "failed"}
          /\ Len(idbq[i].list) = 2
          /\ idbq[i].list[1].id = jobs[2].id
          /\ idbq[i].list[1].status \in {"completed", "failed"}
          /\ idbq[i].list[2] = idbq[i].item

\* C26: a job whose external call has not settled is never shown as failed:
\* while the job awaits the analysis call, and no other job has its id, the
\* history state holds no failed record of its id.
C26_InFlightNeverFailed ==
    \A j \in 1..MaxJobs :
       (/\ jobs[j].pc = "analyzing"
        /\ \A k \in 1..MaxJobs : k # j => jobs[k].id # jobs[j].id)
       => \A p \in 1..Len(history) :
             history[p].id = jobs[j].id => history[p].status # "failed"

\* C27: once a history record has been removed by deleteHistoryItem or by
\* clearHistory, no record with its id is in the store again.
C27_RemovedStaysRemoved ==
    \A k \in 1..Len(store) : store[k].id \notin removed

\* C29: after clearHistory the history stays empty across a reload: no job
\* is submitted, so once clearHistory has removed the records of the store,
\* every later run of init, migration included, yields an empty history.
C29_ClearedStaysEmpty ==
    [][\A i \in 1..Len(idbq) :
          (initLoaded(i) /\ removed # {}) => history' = <<>>]_vars

\* C30: a record that the load-time repair presented as failed is never
\* afterwards presented as pending in the history state: no step turns a
\* failed record of a former session (ids below 0) into a 'processing' one.
C30_RepairedStaysFailed ==
    [][\A p \in 1..Len(history), q \in 1..Len(history') :
          (/\ history[p].id < 0
           /\ history[p].status = "failed"
           /\ history'[q].id = history[p].id)
          => history'[q].status # "processing"]_vars
====
